---- MODULE Spec2Model ----
(***************************************************************************)
(* Model of src/lambda/thumbnail_generator.py: the S3-triggered thumbnail  *)
(* handler lambda_handler, the two buckets it reads and writes, and the    *)
(* clients that upload source objects and invoke the handler.              *)
(*                                                                         *)
(* Strings that the code takes apart (object keys) are sequences of        *)
(* one-character strings; bucket names are plain strings.                  *)
(***************************************************************************)
EXTENDS Integers, Sequences, FiniteSets

\* ---------------------------------------------------------------- bounds
NumInv == 2          \* handler invocations per behaviour
MaxUploads == 1      \* client uploads to the source bucket per behaviour
MaxRecords == 2      \* records in one notification event
MaxKeyLen == 4       \* length of the keys enumerated for the key derivation
MaxSmall == 6        \* image sides 1..MaxSmall
MaxExcess == 6       \* image sides up to BoxSide + MaxExcess

\* ------------------------------------------------------ program constants
BoxSide == 500       \* img.thumbnail((500,500))
HttpOk == 200        \* sent_data['ResponseMetadata']['HTTPStatusCode'] != 200

Invocations == 1..NumInv

\* ------------------------------------------------------------- strings
ThumbnailSuffix == <<"_", "t", "h", "u", "m", "b", "n", "a", "i", "l">>

Max(S) == CHOOSE x \in S : \A y \in S : y <= x

\* str.rfind, 1-based: the last index of c in s, 0 when c does not occur
RFind(s, c) == Max({0} \cup {n \in 1..Len(s) : s[n] = c})

\* os.path.splitext on POSIX (genericpath._splitext with sep "/", extsep "."):
\* the extension starts at the last dot, provided that dot lies after the last
\* slash and some character between the slash and the dot is not a dot.
splitext(p) ==
    LET sepIndex == RFind(p, "/")
        dotIndex == RFind(p, ".")
    IN  IF /\ dotIndex > sepIndex
           /\ \E f \in (sepIndex + 1)..(dotIndex - 1) : p[f] # "."
        THEN <<SubSeq(p, 1, dotIndex - 1), SubSeq(p, dotIndex, Len(p))>>
        ELSE <<p, <<>>>>

\* a plausible slip: the extension is dropped from the thumbnail's key
thumbnail_key_noext(key) == splitext(key)[1] \o ThumbnailSuffix

\* a plausible slip: the key is split at the last dot wherever it is
thumbnail_key_lastdot(key) ==
    LET d == RFind(key, ".")
    IN  IF d = 0 THEN key \o ThumbnailSuffix
        ELSE SubSeq(key, 1, d - 1) \o ThumbnailSuffix \o SubSeq(key, d, Len(key))

\* thumbnail_name, thumbnail_ext = os.path.splitext(key)
\* thumbnail_key = f"{thumbnail_name}_thumbnail{thumbnail_ext}"
thumbnail_key_of(key) ==
    splitext(key)[1] \o ThumbnailSuffix \o splitext(key)[2]

\* ------------------------------------------------------------- images
Abs(x) == IF x < 0 THEN -x ELSE x

\* a plausible slip: the image is forced to the box, upscaling small images
thumbnail_size_stretch(w, h) ==
    IF h >= w
    THEN <<Max({1, (BoxSide * w) \div h}), BoxSide>>
    ELSE <<BoxSide, Max({1, (BoxSide * h) \div w})>>

\* Image.thumbnail((500, 500)): the size Pillow resizes to (preserve_aspect_ratio
\* and round_aspect), in exact arithmetic. round_aspect picks, of the floor and
\* the ceiling of the scaled side, the one whose aspect ratio is nearer the
\* image's (the floor on a tie), and never less than 1.
thumbnail_size(w, h) ==
    IF BoxSide >= w /\ BoxSide >= h THEN <<w, h>>
    ELSE IF h >= w
    THEN \* x / y >= aspect: the width is scaled, x = round_aspect(y * aspect)
         LET fl == (BoxSide * w) \div h
             ce == IF fl * h = BoxSide * w THEN fl ELSE fl + 1
             pick == IF Abs(BoxSide * w - fl * h) <= Abs(BoxSide * w - ce * h)
                     THEN fl ELSE ce
         IN  <<Max({pick, 1}), BoxSide>>
    ELSE \* the height is scaled, y = round_aspect(x / aspect)
         LET fl == (BoxSide * h) \div w
             ce == IF fl * w = BoxSide * h THEN fl ELSE fl + 1
             pick == IF fl = 0 THEN fl
                     ELSE IF Abs(w * fl - BoxSide * h) * ce
                               <= Abs(w * ce - BoxSide * h) * fl
                     THEN fl ELSE ce
         IN  <<BoxSide, Max({pick, 1})>>

\* ------------------------------------------------------ stored objects
\* An object body: image bytes (format, pixel mode, size, and pix, which stands
\* for the picture the pixels show) or bytes that are no image.
NoBytes == [kind |-> "none", fmt |-> "", mode |-> "", size |-> <<0, 0>>, pix |-> 0]
Garbage == [kind |-> "garbage", fmt |-> "", mode |-> "", size |-> <<0, 0>>, pix |-> 0]
ImageBytes(fmt, mode, w, h, pix) ==
    [kind |-> "image", fmt |-> fmt, mode |-> mode, size |-> <<w, h>>, pix |-> pix]

NoImage == [mode |-> "", size |-> <<0, 0>>, pix |-> 0]

\* Image.open(BytesIO(file_byte_string)) succeeds on image bytes only
Decodable(bytes) == bytes.kind = "image"
image_open(bytes) == [mode |-> bytes.mode, size |-> bytes.size, pix |-> bytes.pix]

\* img.thumbnail((500,500)) resizes the image in place
thumbnail(img) ==
    [img EXCEPT !.size = thumbnail_size(img.size[1], img.size[2])]

\* img.save(buffer, "JPEG"): the JPEG writer refuses modes with alpha or palette
JpegModes == {"RGB", "L", "CMYK"}
Encodable(img) == img.mode \in JpegModes
image_save(img) == ImageBytes("JPEG", img.mode, img.size[1], img.size[2], img.pix)

\* the bytes lambda_handler uploads for a decodable, encodable source object
ThumbnailBytes(bytes) == image_save(thumbnail(image_open(bytes)))

\* ------------------------------------------------------------ the world
SrcBucket == "src"
DstBucket == "dst"
Unset == ""

KeyPng == <<"p", ".", "g">>
KeyNoExt == <<"p">>
SrcKeys == {KeyPng, KeyNoExt}
OtherKey(k) == IF k = KeyPng THEN KeyNoExt ELSE KeyPng

ImgA == ImageBytes("JPEG", "RGB", 800, 600, 1)
ImgB == ImageBytes("PNG", "RGB", 1000, 500, 2)
ImgC == ImageBytes("PNG", "RGB", 300, 200, 3)
ImgAlpha == ImageBytes("PNG", "RGBA", 640, 480, 4)
\* what the source bucket may hold under a key when the function is deployed
SrcBodies(k) == IF k = KeyPng THEN {ImgA, Garbage} ELSE {ImgB, ImgAlpha}
UploadBodies == {ImgC, Garbage}

Record(b, k) == [bucket |-> b, key |-> k]
\* an event whose first record names key k; the further records name the other key
Event(k, n) ==
    [Records |-> [j \in 1..n |-> Record(SrcBucket, IF j = 1 THEN k ELSE OtherKey(k))]]
EmptyEvent == [Records |-> <<>>]
Events == {EmptyEvent} \cup {Event(k, n) : k \in SrcKeys, n \in 1..MaxRecords}

PutStatuses == {HttpOk, 500}

NoError == [type |-> "", args |-> <<>>]
Error(t, a) == [type |-> t, args |-> a]

VARIABLES
    env,        \* os.environ['DEST_BUCKET'], Unset when the variable is missing
    store,      \* store[b]: the objects of bucket b, a function from keys to bodies
    pending,    \* pending[k]: object-created notifications for key k not yet delivered
    uploads,    \* client uploads so far
    inv         \* inv[i]: the frame of invocation i of lambda_handler

vars == <<env, store, pending, uploads, inv>>

IdleFrame ==
    [pc |-> "idle", arg |-> EmptyEvent, event |-> EmptyEvent,
     bucket |-> "", key |-> <<>>,
     thumbnail_bucket |-> "", thumbnail_key |-> <<>>,
     file_byte_string |-> NoBytes, img |-> NoImage, buffer |-> NoBytes,
     sent_data |-> 0, ret |-> <<>>, err |-> NoError,
     calls |-> <<>>, applied |-> 0]

NoObjects == [k \in {} |-> NoBytes]
Buckets(src) == [b \in {SrcBucket, DstBucket} |-> IF b = SrcBucket THEN src ELSE NoObjects]

\* The function is deployed with or without DEST_BUCKET; the source bucket holds
\* some object under each key, the destination bucket is empty, nothing runs.
Init ==
    /\ env \in {Unset, DstBucket}
    /\ \E src \in [SrcKeys -> UNION {SrcBodies(k) : k \in SrcKeys}] :
         /\ \A k \in SrcKeys : src[k] \in SrcBodies(k)
         /\ store = Buckets(src)
    /\ pending = [k \in SrcKeys |-> 0]
    /\ uploads = 0
    /\ inv = [i \in Invocations |-> IdleFrame]

Active(i) == inv[i].pc \notin {"idle", "returned", "raised"}
Ended(i) == inv[i].pc \in {"returned", "raised"}


\* a plausible slip: an existing object is kept and the body goes to a fresh key
PutIntoFresh(objs, k, body) ==
    LET k2 == IF k \in DOMAIN objs THEN k \o <<"_", "1">> ELSE k
    IN  [x \in (DOMAIN objs) \cup {k2} |-> IF x = k2 THEN body ELSE objs[x]]

\* s3 put_object as the bucket sees it: the body replaces whatever the key held
PutInto(objs, k, body) ==
    [x \in (DOMAIN objs) \cup {k} |-> IF x = k THEN body ELSE objs[x]]

\* ------------------------------------------------- pieces of the handler
\* a plausible slip: the newest (last) record is used
last_record(event) == event.Records[Len(event.Records)]

\* event["Records"][0]
first_record(event) == event.Records[1]

\* a plausible slip: os.environ.get('DEST_BUCKET', <default>) never raises
environ_get_default(e) ==
    [raised |-> FALSE, value |-> IF e = Unset THEN DstBucket ELSE e]

\* os.environ['DEST_BUCKET']: raises KeyError when the variable is missing
environ_lookup(e) == [raised |-> e = Unset, value |-> e]

\* a plausible slip: every answer of put_object is taken as a success
upload_failed_never(status) == FALSE

\* sent_data['ResponseMetadata']['HTTPStatusCode'] != 200
upload_failed(status) == status # HttpOk

\* a plausible slip: the message names the thumbnail's key and bucket
upload_error_dest(f) ==
    Error("Exception", <<f.thumbnail_key, f.thumbnail_bucket>>)

\* Exception('Failed to upload image {} to bucket {}'.format(key, bucket))
upload_error(f) == Error("Exception", <<f.key, f.bucket>>)

\* a plausible slip: only the record that was processed is handed back
return_first(event) == [Records |-> SubSeq(event.Records, 1, 1)]

\* return event
return_value(event) == event

Raise(f, e) == [f EXCEPT !.pc = "raised", !.err = e]

\* lambda_handler, lines 12-25: read the first record, the environment, derive
\* the thumbnail's key. Nothing here touches the buckets.
Prepare(f) ==
    IF Len(f.event.Records) = 0
    THEN Raise(f, Error("IndexError", <<>>))
    ELSE LET r  == first_record(f.event)
             f1 == [f EXCEPT !.bucket = r.bucket, !.key = r.key]
             e  == environ_lookup(env)
         IN  IF e.raised
             THEN Raise(f1, Error("KeyError", <<"DEST_BUCKET">>))
             ELSE [f1 EXCEPT !.thumbnail_bucket = e.value,
                             !.thumbnail_key = thumbnail_key_of(r.key),
                             !.pc = "get"]

\* the frame of a fresh invocation of lambda_handler(event, context)
Start(ev) ==
    Prepare([IdleFrame EXCEPT !.pc = "start", !.arg = ev, !.event = ev])

Step(i, f) == inv' = [inv EXCEPT ![i] = f]

\* invocations are numbered in the order in which they start
MayStart(i) ==
    /\ inv[i].pc = "idle"
    /\ \A j \in Invocations : j < i => inv[j].pc # "idle"

\* the bucket notification for a created object invokes the handler
S3Invoke(i) ==
    /\ MayStart(i)
    /\ \E k \in SrcKeys :
         /\ pending[k] > 0
         /\ pending' = [pending EXCEPT ![k] = @ - 1]
         /\ Step(i, Start(Event(k, 1)))
    /\ UNCHANGED <<env, store, uploads>>

\* a caller invokes the handler with an event of its own
DirectInvoke(i) ==
    /\ MayStart(i)
    /\ \E ev \in Events : Step(i, Start(ev))
    /\ UNCHANGED <<env, store, pending, uploads>>

Call(op, b, k) == [op |-> op, bucket |-> b, key |-> k]

\* line 28: s3_client.get_object(Bucket=bucket, Key=key)['Body'].read()
GetObject(i) ==
    LET f == [inv[i] EXCEPT !.calls = Append(@, Call("get", inv[i].bucket, inv[i].key))]
    IN  /\ inv[i].pc = "get"
        /\ \/ Step(i, Raise(f, Error("ClientError", <<"get_object">>)))
           \/ /\ f.bucket \in DOMAIN store
              /\ f.key \in DOMAIN store[f.bucket]
              /\ Step(i, [f EXCEPT !.file_byte_string = store[f.bucket][f.key],
                                   !.pc = "decode"])
        /\ UNCHANGED <<env, store, pending, uploads>>

\* line 29: Image.open(BytesIO(file_byte_string))
Decode(i) ==
    LET f == inv[i]
    IN  /\ f.pc = "decode"
        /\ IF Decodable(f.file_byte_string)
           THEN Step(i, [f EXCEPT !.img = image_open(f.file_byte_string),
                                  !.pc = "resize"])
           ELSE Step(i, Raise(f, Error("UnidentifiedImageError", <<>>)))
        /\ UNCHANGED <<env, store, pending, uploads>>

\* line 33: img.thumbnail((500,500))
Resize(i) ==
    LET f == inv[i]
    IN  /\ f.pc = "resize"
        /\ Step(i, [f EXCEPT !.img = thumbnail(f.img), !.pc = "encode"])
        /\ UNCHANGED <<env, store, pending, uploads>>

\* lines 37-39: img.save(buffer, "JPEG"); buffer.seek(0)
Encode(i) ==
    LET f == inv[i]
    IN  /\ f.pc = "encode"
        /\ IF Encodable(f.img)
           THEN Step(i, [f EXCEPT !.buffer = image_save(f.img), !.pc = "put"])
           ELSE Step(i, Raise(f, Error("OSError", <<>>)))
        /\ UNCHANGED <<env, store, pending, uploads>>

\* line 42: s3_client.put_object(Bucket=thumbnail_bucket, Key=thumbnail_key,
\* Body=buffer). The service either raises (nothing stored), or answers with a
\* status; with HttpOk the body is stored, with any other status the handler
\* cannot tell whether it was.
PutObject(i) ==
    LET f == [inv[i] EXCEPT !.calls =
                Append(@, Call("put", inv[i].thumbnail_bucket, inv[i].thumbnail_key))]
    IN  /\ inv[i].pc = "put"
        /\ \/ /\ Step(i, Raise(f, Error("ClientError", <<"put_object">>)))
              /\ UNCHANGED store
           \/ \E status \in PutStatuses, stored \in BOOLEAN :
                /\ status = HttpOk => stored
                /\ store' = IF stored
                            THEN [store EXCEPT ![f.thumbnail_bucket] =
                                    PutInto(@, f.thumbnail_key, f.buffer)]
                            ELSE store
                /\ Step(i, [f EXCEPT !.sent_data = status,
                                     !.applied = IF stored THEN @ + 1 ELSE @,
                                     !.pc = "verify"])
        /\ UNCHANGED <<env, pending, uploads>>

\* lines 44-47: raise on a status other than 200, else return the event
Verify(i) ==
    LET f == inv[i]
    IN  /\ f.pc = "verify"
        /\ IF upload_failed(f.sent_data)
           THEN Step(i, Raise(f, upload_error(f)))
           ELSE Step(i, [f EXCEPT !.ret = <<return_value(f.event)>>,
                                  !.pc = "returned"])
        /\ UNCHANGED <<env, store, pending, uploads>>

\* a client creates or overwrites a source object; the bucket notifies
Upload ==
    /\ uploads < MaxUploads
    /\ \E k \in SrcKeys, body \in UploadBodies :
         /\ store' = [store EXCEPT ![SrcBucket] = PutInto(@, k, body)]
         /\ pending' = [pending EXCEPT ![k] = @ + 1]
    /\ uploads' = uploads + 1
    /\ UNCHANGED <<env, inv>>

\* one step of the handler body, lines 28-47
Handler(i) ==
    \/ GetObject(i)
    \/ Decode(i)
    \/ Resize(i)
    \/ Encode(i)
    \/ PutObject(i)
    \/ Verify(i)

\* callers invoke the handler, concurrently, on a bucket nobody writes to
Next ==
    \E i \in Invocations :
        \/ DirectInvoke(i)
        \/ Handler(i)

Spec == Init /\ [][Next]_vars

\* ---------------------------------------------------- uploads and triggers
\* An object was just created under KeyPng and its notification is pending;
\* clients overwrite objects, every write notifies, every notification invokes.
InitRace ==
    /\ env = DstBucket
    /\ store = Buckets([k \in SrcKeys |-> IF k = KeyPng THEN ImgA ELSE ImgB])
    /\ pending = [k \in SrcKeys |-> IF k = KeyPng THEN 1 ELSE 0]
    /\ uploads = 0
    /\ inv = [i \in Invocations |-> IdleFrame]

NextRace ==
    \/ Upload
    \/ \E i \in Invocations :
         \/ S3Invoke(i)
         \/ Handler(i)

SpecRace == InitRace /\ [][NextRace]_vars


\* ------------------------------------------------------- key derivation
\* The handler is invoked once, with a key out of every short string over
\* KeyChars and the keys the documentation names.
KeyChars == {"p", ".", "/", "_"}
PicPng == <<"a", "/", "b", "/", "p", "i", "c", ".", "p", "n", "g">>
Pic == <<"a", "/", "b", "/", "p", "i", "c">>
DirDot == <<"a", ".", "b", "/", "p", "i", "c">>
DotFile == <<"a", "/", ".", "p", "i", "c">>
KeyInputs ==
    UNION {[1..n -> KeyChars] : n \in 1..MaxKeyLen} \cup {PicPng, Pic, DirDot, DotFile}

InitKey ==
    /\ env = DstBucket
    /\ store = Buckets([k \in SrcKeys |-> ImgA])
    /\ pending = [k \in SrcKeys |-> 0]
    /\ uploads = 0
    /\ inv = [i \in Invocations |-> IdleFrame]

KeyInvoke ==
    /\ MayStart(1)
    /\ \E k \in KeyInputs : Step(1, Start([Records |-> <<Record(SrcBucket, k)>>]))
    /\ UNCHANGED <<env, store, pending, uploads>>

NextKey == KeyInvoke

SpecKey == InitKey /\ [][NextKey]_vars

\* --------------------------------------------------------------- resizing
\* The source object is an image of any size out of Sides x Sides; the handler
\* is invoked once for it.
Sides ==
    (1..MaxSmall) \cup ((BoxSide - MaxExcess)..(BoxSide + MaxExcess))
        \cup {750, 999, 1000, 1001, 4000}

InitResize ==
    /\ env = DstBucket
    /\ \E w \in Sides, h \in Sides :
         store = Buckets([k \in SrcKeys |-> ImageBytes("PNG", "RGB", w, h, 1)])
    /\ pending = [k \in SrcKeys |-> 0]
    /\ uploads = 0
    /\ inv = [i \in Invocations |-> IdleFrame]

ResizeInvoke ==
    /\ MayStart(1)
    /\ Step(1, Start(Event(KeyPng, 1)))
    /\ UNCHANGED <<env, store, pending, uploads>>

NextResize == ResizeInvoke \/ Handler(1)

SpecResize == InitResize /\ [][NextResize]_vars


\* ================================================================ claims
Dst == store[DstBucket]
Src == store[SrcBucket]
Puts(i) == {n \in 1..Len(inv[i].calls) : inv[i].calls[n].op = "put"}
WellFormed(ev) == Len(ev.Records) >= 1

C2_MissingDestBucket ==
    \A i \in Invocations :
        (env = Unset /\ inv[i].pc # "idle" /\ WellFormed(inv[i].arg)) =>
            /\ inv[i].pc = "raised"
            /\ inv[i].err = Error("KeyError", <<"DEST_BUCKET">>)
            /\ inv[i].calls = <<>>
            /\ inv[i].applied = 0

C2_Witness ==
    \E i \in Invocations :
        /\ env = Unset
        /\ WellFormed(inv[i].arg)
        /\ inv[i].pc = "raised"
        /\ inv[i].err.type = "KeyError"

\* C4: the event is never changed, and an invocation returns exactly when the
\* upload answered 200; what it returns is the event it was given.
C4_ReturnsEvent ==
    \A i \in Invocations :
        /\ inv[i].event = inv[i].arg
        /\ inv[i].pc = "returned" =>
              /\ inv[i].ret = <<inv[i].arg>>
              /\ inv[i].sent_data = HttpOk
        /\ inv[i].pc # "returned" => inv[i].ret = <<>>

C4_Witness ==
    \E i \in Invocations :
        /\ inv[i].pc = "returned"
        /\ Len(inv[i].arg.Records) > 1
        /\ inv[i].ret = <<inv[i].arg>>

\* C5: once put_object has answered, a status other than 200 makes the
\* invocation raise an error that carries the source key and the source bucket
\* and return nothing; status 200 makes it return without an error.
C5_UploadStatus ==
    \A i \in Invocations :
        (Ended(i) /\ inv[i].sent_data # 0) =>
            IF inv[i].sent_data = HttpOk
            THEN inv[i].pc = "returned" /\ inv[i].err = NoError
            ELSE /\ inv[i].pc = "raised"
                 /\ inv[i].ret = <<>>
                 /\ inv[i].err.type = "Exception"
                 /\ inv[i].err.args = <<inv[i].arg.Records[1].key,
                                        inv[i].arg.Records[1].bucket>>

C5_Witness ==
    \E i \in Invocations :
        /\ inv[i].pc = "raised"
        /\ inv[i].sent_data = 500
        /\ inv[i].err.args = <<inv[i].arg.Records[1].key, SrcBucket>>

\* C7: the storage calls of an invocation are a prefix of: one get_object on
\* the first record's bucket and key, then one put_object on DEST_BUCKET and the
\* derived key; an invocation that returns has made both. Nothing is read or
\* written for another record, and nothing is written to the source bucket.
ExpectedCalls(ev) ==
    IF WellFormed(ev)
    THEN <<Call("get", ev.Records[1].bucket, ev.Records[1].key),
           Call("put", env, thumbnail_key_of(ev.Records[1].key))>>
    ELSE <<>>

C7_StorageAccesses ==
    \A i \in Invocations :
        LET want == ExpectedCalls(inv[i].arg)
            got  == inv[i].calls
        IN  /\ Len(got) <= Len(want)
            /\ got = SubSeq(want, 1, Len(got))
            /\ inv[i].pc = "returned" => got = want
            /\ \A n \in Puts(i) : got[n].bucket # SrcBucket
            /\ inv[i].applied <= Cardinality(Puts(i))

C7_Witness ==
    \E i \in Invocations :
        /\ inv[i].pc = "returned"
        /\ Len(inv[i].arg.Records) > 1
        /\ Len(inv[i].calls) = 2
        /\ inv[i].calls[1].key # inv[i].arg.Records[2].key

\* C8: when an invocation uploads for the same event and the same source bytes
\* as an invocation that has returned, and the first one's object is still in
\* place, the upload goes to the same key and leaves the destination bucket as
\* the first invocation left it, whatever put_object answers.
C8_OverwriteIdempotent ==
    [][\A i, j \in Invocations :
          ( /\ i # j
            /\ inv[i].pc = "returned"
            /\ inv[j].pc = "put"
            /\ inv'[j].pc # "put"
            /\ inv[j].arg = inv[i].arg
            /\ inv[j].file_byte_string = inv[i].file_byte_string
            /\ inv[i].thumbnail_key \in DOMAIN Dst
            /\ Dst[inv[i].thumbnail_key] = inv[i].buffer )
          => /\ inv[j].thumbnail_key = inv[i].thumbnail_key
             /\ store'[DstBucket] = Dst]_vars

\* the second invocation's upload onto the first one's object answered 200
C8_Witness ==
    \E i, j \in Invocations :
        /\ i # j
        /\ inv[i].pc = "returned"
        /\ inv[j].pc = "returned"
        /\ inv[j].arg = inv[i].arg
        /\ inv[i].applied = 1 /\ inv[j].applied = 1
        /\ DOMAIN Dst = {inv[i].thumbnail_key}
        /\ Dst[inv[i].thumbnail_key] = ThumbnailBytes(Src[inv[i].key])

\* C9: the key derivation is injective; every put_object of an invocation goes
\* to the key derived from its own source key; and when no invocation is
\* running, the destination bucket is what running the invocations one after
\* another, in any order, with the same answers from the bucket, leaves.
RECURSIVE RunInOrder(_, _)
RunInOrder(order, objs) ==
    IF order = <<>> THEN objs
    ELSE LET i == Head(order)
             after == IF inv[i].applied > 0
                      THEN PutInto(objs, thumbnail_key_of(inv[i].key),
                                   ThumbnailBytes(Src[inv[i].key]))
                      ELSE objs
         IN  RunInOrder(Tail(order), after)

Orders == {o \in [1..NumInv -> Invocations] : \A a, b \in 1..NumInv : o[a] = o[b] => a = b}

\* as many destination keys as source keys: no two source keys share one
KeyDerivationInjective ==
    Cardinality({thumbnail_key_of(k) : k \in KeyInputs \cup SrcKeys})
        = Cardinality(KeyInputs \cup SrcKeys)

C9_Independent ==
    /\ KeyDerivationInjective
    /\ \A i \in Invocations : \A n \in Puts(i) :
          inv[i].calls[n].key = thumbnail_key_of(inv[i].key)
    /\ \A i, j \in Invocations :
          (inv[i].applied > 0 /\ inv[j].applied > 0 /\ inv[i].key # inv[j].key)
             => inv[i].thumbnail_key # inv[j].thumbnail_key
    /\ (\A i \in Invocations : ~Active(i)) =>
          \A o \in Orders : Dst = RunInOrder(o, NoObjects)

C9_Witness ==
    \E i, j \in Invocations :
        /\ inv[i].pc = "returned" /\ inv[j].pc = "returned"
        /\ inv[i].key # inv[j].key
        /\ \A n \in Invocations : ~Active(n)
        /\ Cardinality(DOMAIN Dst) = 2

\* C10 (as stated): once every notification for a key is delivered and every
\* invocation for the key has returned, the destination object is the thumbnail
\* of what the source key holds now.
C10_LatestThumbnail ==
    \A k \in SrcKeys :
        ( /\ pending[k] = 0
          /\ \E i \in Invocations : inv[i].key = k
          /\ \A i \in Invocations : inv[i].key = k => inv[i].pc = "returned" )
        => /\ thumbnail_key_of(k) \in DOMAIN Dst
           /\ Dst[thumbnail_key_of(k)] = ThumbnailBytes(Src[k])


\* C3: the destination key is name + "_thumbnail" + ext for the source key's
\* (name, ext), which together spell the source key; ext is empty or is the
\* part from the last dot on, with no slash in it; the destination key has the
\* source key's extension; the documented keys give the documented results.
PicThumbnailPng ==
    <<"a", "/", "b", "/", "p", "i", "c", "_", "t", "h", "u", "m", "b", "n", "a", "i", "l",
      ".", "p", "n", "g">>
PicThumbnail ==
    <<"a", "/", "b", "/", "p", "i", "c", "_", "t", "h", "u", "m", "b", "n", "a", "i", "l">>

C3_DestinationKey ==
    \A i \in Invocations :
        inv[i].pc = "get" =>
            LET k    == inv[i].arg.Records[1].key
                t    == inv[i].thumbnail_key
                name == splitext(k)[1]
                ext  == splitext(k)[2]
            IN  /\ t = name \o ThumbnailSuffix \o ext
                /\ name \o ext = k
                /\ ext # <<>> =>
                      /\ ext[1] = "."
                      /\ \A n \in 2..Len(ext) : ext[n] \notin {".", "/"}
                /\ splitext(t)[2] = ext
                /\ Len(t) = Len(k) + Len(ThumbnailSuffix)
                /\ k = PicPng => t = PicThumbnailPng
                /\ k = Pic => t = PicThumbnail
                /\ k = DirDot => ext = <<>>
                /\ k = DotFile => ext = <<>>

\* a key whose only dot leads the file name: no extension to carry over
C3_Witness ==
    /\ inv[1].pc = "get"
    /\ inv[1].key = DotFile
    /\ inv[1].thumbnail_key = DotFile \o ThumbnailSuffix

\* C6: the image that is encoded and uploaded is the source image itself when
\* it fits the 500x500 box; otherwise its larger side is 500, its other side is
\* the proportional one within rounding (at least 1), and no side has grown.
Resized(f) == f.img # NoImage /\ f.pc # "resize"

C6_FitsBox ==
    \A i \in Invocations :
        Resized(inv[i]) =>
            LET w  == inv[i].file_byte_string.size[1]
                h  == inv[i].file_byte_string.size[2]
                ow == inv[i].img.size[1]
                oh == inv[i].img.size[2]
            IN  /\ (w <= BoxSide /\ h <= BoxSide) => (ow = w /\ oh = h)
                /\ ow >= 1 /\ oh >= 1
                /\ ow <= BoxSide /\ oh <= BoxSide
                /\ ow <= w /\ oh <= h
                /\ (w > BoxSide /\ w >= h) =>
                      (ow = BoxSide /\ Abs(oh * w - BoxSide * h) < w)
                /\ (h > BoxSide /\ h >= w) =>
                      (oh = BoxSide /\ Abs(ow * h - BoxSide * w) < h)
                /\ (w = 1000 /\ h = 500) => (ow = 500 /\ oh = 250)
                /\ inv[i].buffer # NoBytes => inv[i].buffer.size = <<ow, oh>>
                /\ inv[i].pc = "returned" =>
                      Dst[inv[i].thumbnail_key].size = <<ow, oh>>

C6_Witness ==
    /\ inv[1].pc = "returned"
    /\ inv[1].file_byte_string.size = <<1000, 500>>
    /\ Dst[inv[1].thumbnail_key].size = <<500, 250>>

====
